---- MODULE Spec2Model ----
(***************************************************************************)
(* A model of dit's logarithmic-decomposition intersection engine          *)
(* (dit/log_decomp/intersection.py) and of the PID adapter built on it     *)
(* (dit/pid/measures/ilogdec.py).                                          *)
(*                                                                         *)
(* One call of one entry point is one behaviour: Init draws the entry      *)
(* point and its arguments, the actions are the statements of the called   *)
(* function in program order.  Python values carry their type in a tag     *)
(* field "t", so that the isinstance checks of the code can be evaluated.  *)
(*                                                                         *)
(* Distributions are uniform over a support of outcomes of three binary    *)
(* random variables X, Y, Z.  An atom of the logarithmic decomposition is  *)
(* a set of at least two outcomes; the order of an atom is its size.       *)
(***************************************************************************)
EXTENDS Integers, Sequences, FiniteSets, TLC

VARIABLES
    entry,              \* the function the caller invoked
    round,              \* 1: first call; 2: the same call repeated with the groups permuted
    dist,               \* argument dist / d
    list_of_rv_groups,  \* argument list_of_rv_groups of weakly_shared(_content)
    order,              \* argument order
    log_base,           \* argument log_base of weakly_shared
    sources,            \* argument sources of PID_LogDec._measure
    target,             \* argument target of PID_LogDec._measure
    method,             \* argument method of PID_LogDec._measure
    pc,                 \* the statement about to run
    relevant_contents,  \* local of weakly_shared_content: a set of frozensets
    intersection_set,   \* local of weakly_shared_content
    pending,            \* the part of relevant_contents the for loop has not visited yet
    filtered_atoms,     \* local of weakly_shared_content
    set_to_measure,     \* local of weakly_shared_content / weakly_shared
    ret,                \* the value returned to the caller
    err,                \* the exception raised to the caller ("none": no exception)
    errSite,            \* the statement that raised it
    calls,              \* the collaborators called so far
    first_call          \* the groups and the returned value of round 1 (round 2 only)

vars == <<entry, round, dist, list_of_rv_groups, order, log_base, sources, target,
          method, pc, relevant_contents, intersection_set, pending, filtered_atoms,
          set_to_measure, ret, err, errSite, calls, first_call>>

----------------------------------------------------------------------------
(* Bounds of the model.                                                    *)

\* The longest group list a caller passes.
MaxGroups == 2

\* The longest source list a caller passes to the PID adapter.
MaxSources == 2

\* The largest integer order a caller passes.
MaxOrder == 3

----------------------------------------------------------------------------
(* Python values.                                                          *)

PyInt(n)   == [t |-> "int",      i |-> n, s |-> ""]
PyFloat(n) == [t |-> "float",    i |-> n, s |-> ""]
PyStr(x)   == [t |-> "str",      i |-> 0, s |-> x]
PyNone     == [t |-> "NoneType", i |-> 0, s |-> ""]

\* A sequence value (list, tuple, str) or a scalar with no items.
PySeq(kind, xs) == [t |-> kind, items |-> xs]

\* list(x): a new list holding the items of the iterable x, in iteration order.
PyList(x) == PySeq("list", x.items)

\* [list(x) for x in xs]
ListEach(xs) == [k \in 1..Len(xs) |-> PyList(xs[k])]

RECURSIVE SeqRange(_)
SeqRange(xs) == IF xs = <<>> THEN {} ELSE {Head(xs)} \cup SeqRange(Tail(xs))

----------------------------------------------------------------------------
(* Distributions and the atom lattice.                                     *)

Rvs == <<"X", "Y", "Z">>

RvIndex(name) == CHOOSE k \in 1..Len(Rvs) : Rvs[k] = name

Distribution(support) == [t |-> "Distribution", outcomes |-> support]

NotADistribution == [t |-> "NoneType", outcomes |-> {}]

\* X, Y, Z independent uniform bits: the uniform joint over 8 outcomes.
Indep3 == Distribution([1..3 -> {0, 1}])

\* X, Y independent uniform bits, Z = X xor Y.
XorDist == Distribution({<<0, 0, 0>>, <<0, 1, 1>>, <<1, 0, 1>>, <<1, 1, 0>>})

\* X a uniform bit, Y a copy of X, Z constant.
CopyDist == Distribution({<<0, 0, 0>>, <<1, 1, 0>>})

\* Three equiprobable outcomes, no symmetry between the variables.
SkewDist == Distribution({<<0, 0, 0>>, <<0, 1, 0>>, <<1, 1, 1>>})

\* Every atom of the distribution's lattice.
Lattice(d) == {b \in SUBSET d.outcomes : Cardinality(b) >= 2}

----------------------------------------------------------------------------
(* The collaborators of the intersection engine: content and measure       *)
(* (dit/log_decomp/content.py), get_n_atoms and upper_set                  *)
(* (dit/log_decomp/combinatorics.py).  They are the logarithmic            *)
(* decomposition of arXiv:2305.07554, which intersection.py cites.         *)

\* The variables a group names.
GroupVars(group) == SeqRange(group.items)

\* Whether atom b holds two outcomes that differ on a variable of the group.
TellsApart(group, b) ==
    \E w1 \in b, w2 \in b :
        \E name \in GroupVars(group) : w1[RvIndex(name)] # w2[RvIndex(name)]

\* content(dist, group): the atoms holding two outcomes that the group tells apart.
content(d, group) == {b \in Lattice(d) : TellsApart(group, b)}

\* get_n_atoms(atom_set, order): the atoms of the requested order.
get_n_atoms(atom_set, o) ==
    CASE o.t = "int"                 -> {b \in atom_set : Cardinality(b) = o.i}
      [] o.t = "str" /\ o.s = "even" -> {b \in atom_set : Cardinality(b) % 2 = 0}
      [] o.t = "str" /\ o.s = "odd"  -> {b \in atom_set : Cardinality(b) % 2 = 1}

\* upper_set(dist, atoms): every lattice atom above (containing) a seed atom.
upper_set(d, atoms) ==
    LET seeds == {a : a \in atoms} IN {b \in Lattice(d) : \E a \in seeds : a \subseteq b}

(* Measures are kept exact.  Under a uniform distribution over N outcomes  *)
(* every entropy-like quantity is a rational combination of log2 of 2, 3,  *)
(* 5 and 7, which are linearly independent over the rationals: a value is  *)
(* <<a, b, c, d>> / den, standing for (a + b log2 3 + c log2 5 + d log2 7) *)
(* / den, and it is zero exactly when a = b = c = d = 0.                   *)

ZeroVec == <<0, 0, 0, 0>>

VecAdd(u, v) == [k \in 1..4 |-> u[k] + v[k]]

VecScale(c, v) == [k \in 1..4 |-> c * v[k]]

\* log2(k) for k in 1..8 in the basis (1, log2 3, log2 5, log2 7).
LogVec(k) ==
    CASE k = 1 -> <<0, 0, 0, 0>>
      [] k = 2 -> <<1, 0, 0, 0>>
      [] k = 3 -> <<0, 1, 0, 0>>
      [] k = 4 -> <<2, 0, 0, 0>>
      [] k = 5 -> <<0, 0, 1, 0>>
      [] k = 6 -> <<1, 1, 0, 0>>
      [] k = 7 -> <<0, 0, 0, 1>>
      [] k = 8 -> <<3, 0, 0, 0>>

RECURSIVE Binomial(_, _)
Binomial(n, k) ==
    IF k = 0 \/ k = n THEN 1 ELSE Binomial(n - 1, k - 1) + Binomial(n - 1, k)

\* N times the entropy loss of merging k equiprobable outcomes: k log2 k.
Loss(k) == VecScale(k, LogVec(k))

\* N times the measure of one atom of order n: the Moebius inversion of Loss.
RECURSIVE AtomMeasureFrom(_, _)
AtomMeasureFrom(n, k) ==
    IF k > n THEN ZeroVec
    ELSE VecAdd(VecScale(Binomial(n, k) * (IF (n - k) % 2 = 0 THEN 1 ELSE -1), Loss(k)),
                AtomMeasureFrom(n, k + 1))

AtomMeasure(n) == AtomMeasureFrom(n, 1)

RECURSIVE SumByOrder(_, _)
SumByOrder(atoms, n) ==
    IF n < 2 THEN ZeroVec
    ELSE VecAdd(VecScale(Cardinality({b \in atoms : Cardinality(b) = n}), AtomMeasure(n)),
                SumByOrder(atoms, n - 1))

\* log2 of a logarithm base that is a power of two.
RECURSIVE Log2Of(_)
Log2Of(base) == IF base <= 2 THEN 1 ELSE 1 + Log2Of(base \div 2)

\* measure(dist, atom_set, log_base): the sum of the atoms' measures, in base log_base.
measure(d, atom_set, base) ==
    [t   |-> "float",
     num |-> SumByOrder(atom_set, Cardinality(d.outcomes)),
     den |-> IF SumByOrder(atom_set, Cardinality(d.outcomes)) = ZeroVec
             THEN 1
             ELSE Cardinality(d.outcomes) * Log2Of(base.i)]

IsZero(value) == value.num = ZeroVec

----------------------------------------------------------------------------
(* The arguments a caller may pass.                                        *)

\* The default of weakly_shared's log_base parameter.
DefaultLogBase == 2

Dists == {XorDist, CopyDist, SkewDist, NotADistribution}

GroupChoices == {<<"X">>, <<"Y">>, <<"Z">>, <<"X", "Y">>}

ListGroups == {PySeq("list", g) : g \in GroupChoices}

TupleGroups == {PySeq("tuple", g) : g \in GroupChoices}

SeqsUpTo(S, n) == UNION {[1..k -> S] : k \in 0..n}

\* Lists of lists of variable names, the empty list included.
GroupListArgs == {PySeq("list", gs) : gs \in SeqsUpTo(ListGroups, MaxGroups)}

\* A tuple of lists, a string, and a list holding an integer beside a list.
OtherGroupArgs ==
    { PySeq("tuple", <<PySeq("list", <<"X">>), PySeq("list", <<"Y">>)>>),
      PySeq("str", <<>>),
      PySeq("list", <<PySeq("int", <<>>), PySeq("list", <<"X">>)>>) }

GroupArgs == GroupListArgs \cup OtherGroupArgs

Orders ==
    {PyInt(n) : n \in 1..MaxOrder}
        \cup {PyStr("even"), PyStr("odd"), PyStr("bogus"), PyFloat(2)}

LogBases == {PyInt(2), PyFloat(4), PyStr("x")}

SourceArgs == {PySeq("tuple", gs) : gs \in SeqsUpTo(TupleGroups, MaxSources)}

TargetArgs == {PySeq("tuple", <<"Z">>), PySeq("str", <<"Y">>)}

Methods == {"cross", "shared_generator", "bogus"}

NoGroups == PySeq("NoneType", <<>>)

----------------------------------------------------------------------------
(* Returned values.                                                        *)

RetUnset    == [t |-> "unset",    atoms |-> {}, num |-> ZeroVec, den |-> 1]
RetNone     == [t |-> "NoneType", atoms |-> {}, num |-> ZeroVec, den |-> 1]
RetSet(a)   == [t |-> "set",      atoms |-> a,  num |-> ZeroVec, den |-> 1]
RetFloat(m) == [t |-> "float",    atoms |-> {}, num |-> m.num,   den |-> m.den]

----------------------------------------------------------------------------
(* The state after the caller has chosen a function and its arguments.     *)

FreshLocals ==
    /\ relevant_contents = {}
    /\ intersection_set = {}
    /\ pending = {}
    /\ filtered_atoms = {}
    /\ set_to_measure = {}
    /\ ret = RetUnset
    /\ err = "none"
    /\ errSite = "none"
    /\ calls = {}
    /\ first_call = [groups |-> NoGroups, ret |-> RetUnset]
    /\ round = 1

NoPidArgs ==
    /\ sources = PySeq("tuple", <<>>)
    /\ target = PySeq("tuple", <<>>)
    /\ method = "cross"

InitWeaklySharedContent(D) ==
    /\ entry = "weakly_shared_content"
    /\ pc = "wsc_validate"
    /\ dist \in D
    /\ list_of_rv_groups \in GroupArgs
    /\ order \in Orders
    /\ log_base = PyNone
    /\ NoPidArgs

InitWeaklyShared(D) ==
    /\ entry = "weakly_shared"
    /\ pc = "ws_validate"
    /\ dist \in D
    /\ list_of_rv_groups \in GroupArgs
    /\ order \in Orders
    /\ log_base \in LogBases
    /\ NoPidArgs

InitStronglyShared(D) ==
    /\ entry \in {"strongly_shared_content", "strongly_shared"}
    /\ pc = "lookup"
    /\ dist \in D
    /\ list_of_rv_groups \in OtherGroupArgs \cup {PySeq("list", <<PySeq("list", <<"X">>)>>)}
    /\ order \in Orders
    /\ log_base = PyNone
    /\ NoPidArgs

InitPidMeasure(D) ==
    /\ entry = "PID_LogDec._measure"
    /\ pc = "pid_measure"
    /\ dist \in D
    /\ list_of_rv_groups = NoGroups
    /\ order \in Orders
    /\ log_base = PyNone
    /\ sources \in SourceArgs
    /\ target \in TargetArgs
    /\ method \in Methods

InitWith(D) ==
    /\ FreshLocals
    /\ \/ InitWeaklySharedContent(D)
       \/ InitWeaklyShared(D)
       \/ InitStronglyShared(D)
       \/ InitPidMeasure(D)

Init == InitWith(Dists)

\* The calls on three independent uniform bits.
InitIndep == InitWith({Indep3})

----------------------------------------------------------------------------
(* Input checks.                                                           *)

\* ContentInputError without the check of a string order's value.
ContentInputError_AnyString(d, groups, o) ==
    IF d.t # "Distribution" THEN "TypeError"
    ELSE IF groups.t # "list" THEN "TypeError"
    ELSE IF o.t \notin {"int", "str"} THEN "TypeError"
    ELSE "none"

\* ContentInputError with an added check that refuses an empty group list.
ContentInputError_RejectEmpty(d, groups, o) ==
    IF d.t # "Distribution" THEN "TypeError"
    ELSE IF groups.t # "list" THEN "TypeError"
    ELSE IF groups.items = <<>> THEN "ValueError"
    ELSE IF o.t \notin {"int", "str"} THEN "TypeError"
    ELSE IF o.t = "str" /\ o.s \notin {"even", "odd"} THEN "ValueError"
    ELSE "none"

\* weakly_shared_content, lines 47-55: the exception the checks raise, or "none".
ContentInputError(d, groups, o) ==
    IF d.t # "Distribution" THEN "TypeError"
    ELSE IF groups.t # "list" THEN "TypeError"
    ELSE IF o.t \notin {"int", "str"} THEN "TypeError"
    ELSE IF o.t = "str" /\ o.s \notin {"even", "odd"} THEN "ValueError"
    ELSE "none"

\* SharedInputError without the check of log_base.
SharedInputError_NoLogBase(d, groups, o, base) ==
    IF d.t # "Distribution" THEN "TypeError"
    ELSE IF groups.t # "list" THEN "TypeError"
    ELSE IF o.t \notin {"int", "str"} THEN "TypeError"
    ELSE IF o.t = "str" /\ o.s \notin {"even", "odd"} THEN "ValueError"
    ELSE "none"

\* weakly_shared, lines 98-108: the exception the checks raise, or "none".
SharedInputError(d, groups, o, base) ==
    IF d.t # "Distribution" THEN "TypeError"
    ELSE IF groups.t # "list" THEN "TypeError"
    ELSE IF o.t \notin {"int", "str"} THEN "TypeError"
    ELSE IF base.t \notin {"int", "float"} THEN "TypeError"
    ELSE IF o.t = "str" /\ o.s \notin {"even", "odd"} THEN "ValueError"
    ELSE "none"

\* What content raises for a group that is no sequence of variable names.
ContentErrors == {"TypeError", "ditException"}

\* How the lookup of a name the module never defines fails.
LookupErrors == {"AttributeError", "ImportError"}

----------------------------------------------------------------------------
(* The statements.                                                         *)

Raise(kind, site) ==
    /\ err' = kind
    /\ errSite' = site
    /\ pc' = "raised"

\* weakly_shared, lines 98-108.
weakly_shared_check ==
    /\ pc = "ws_validate"
    /\ LET e == SharedInputError(dist, list_of_rv_groups, order, log_base) IN
         IF e # "none"
         THEN Raise(e, "weakly_shared")
         ELSE pc' = "wsc_validate" /\ UNCHANGED <<err, errSite>>
    /\ UNCHANGED <<entry, round, dist, list_of_rv_groups, order, log_base, sources,
                   target, method, relevant_contents, intersection_set, pending,
                   filtered_atoms, set_to_measure, ret, calls, first_call>>

\* weakly_shared_content, lines 47-55.
weakly_shared_content_check ==
    /\ pc = "wsc_validate"
    /\ LET e == ContentInputError(dist, list_of_rv_groups, order) IN
         IF e # "none"
         THEN Raise(e, "weakly_shared_content")
         ELSE pc' = "wsc_contents" /\ UNCHANGED <<err, errSite>>
    /\ UNCHANGED <<entry, round, dist, list_of_rv_groups, order, log_base, sources,
                   target, method, relevant_contents, intersection_set, pending,
                   filtered_atoms, set_to_measure, ret, calls, first_call>>

\* The set comprehension of line 57: equal content sets collapse, the order is lost.
ContentsOf(d, groups) == {content(d, groups[k]) : k \in 1..Len(groups)}

\* weakly_shared_content, line 57.
compute_relevant_contents ==
    /\ pc = "wsc_contents"
    /\ calls' = IF list_of_rv_groups.items = <<>> THEN calls ELSE calls \cup {"content"}
    /\ IF \E k \in 1..Len(list_of_rv_groups.items) : list_of_rv_groups.items[k].t = "int"
       THEN /\ \E e \in ContentErrors : Raise(e, "content")
            /\ UNCHANGED relevant_contents
       ELSE /\ relevant_contents' = ContentsOf(dist, list_of_rv_groups.items)
            /\ pc' = "wsc_pop"
            /\ UNCHANGED <<err, errSite>>
    /\ UNCHANGED <<entry, round, dist, list_of_rv_groups, order, log_base, sources,
                   target, method, intersection_set, pending, filtered_atoms,
                   set_to_measure, ret, first_call>>

\* set.pop(): any element may be the one removed.
PopChoices(contents) == contents

\* weakly_shared_content, line 59.
pop_intersection_set ==
    /\ pc = "wsc_pop"
    /\ IF relevant_contents = {}
       THEN /\ Raise("KeyError", "pop")
            /\ UNCHANGED <<relevant_contents, intersection_set, pending>>
       ELSE /\ \E c \in PopChoices(relevant_contents) :
                 /\ intersection_set' = c
                 /\ relevant_contents' = relevant_contents \ {c}
                 /\ pending' = relevant_contents \ {c}
            /\ pc' = "wsc_loop"
            /\ UNCHANGED <<err, errSite>>
    /\ UNCHANGED <<entry, round, dist, list_of_rv_groups, order, log_base, sources,
                   target, method, filtered_atoms, set_to_measure, ret, calls, first_call>>

\* Intersect taking the union instead.
Intersect_Union(a, b) == a \cup b

\* Intersect keeping only the content set just visited.
Intersect_Overwrite(a, b) == b

\* intersection_set.intersection(content_set)
Intersect(a, b) == a \cap b

\* weakly_shared_content, lines 61-62: one iteration, in the set's iteration order.
intersect_next_content ==
    /\ pc = "wsc_loop"
    /\ pending # {}
    /\ \E c \in pending :
         /\ intersection_set' = Intersect(intersection_set, c)
         /\ pending' = pending \ {c}
    /\ UNCHANGED <<entry, round, dist, list_of_rv_groups, order, log_base, sources,
                   target, method, pc, relevant_contents, filtered_atoms,
                   set_to_measure, ret, err, errSite, calls, first_call>>

\* weakly_shared_content, line 64, once the loop has visited every content set.
filter_atoms ==
    /\ pc = "wsc_loop"
    /\ pending = {}
    /\ filtered_atoms' = get_n_atoms(intersection_set, order)
    /\ calls' = calls \cup {"get_n_atoms"}
    /\ pc' = "wsc_upper"
    /\ UNCHANGED <<entry, round, dist, list_of_rv_groups, order, log_base, sources,
                   target, method, relevant_contents, intersection_set, pending,
                   set_to_measure, ret, err, errSite, first_call>>

\* weakly_shared_content, line 66.
compute_upper_set ==
    /\ pc = "wsc_upper"
    /\ set_to_measure' = upper_set(dist, filtered_atoms)
    /\ calls' = calls \cup {"upper_set"}
    /\ pc' = "wsc_return"
    /\ UNCHANGED <<entry, round, dist, list_of_rv_groups, order, log_base, sources,
                   target, method, relevant_contents, intersection_set, pending,
                   filtered_atoms, ret, err, errSite, first_call>>

\* weakly_shared_content, line 68: to the caller, or back into weakly_shared (line 110).
return_set_to_measure ==
    /\ pc = "wsc_return"
    /\ IF entry = "weakly_shared_content"
       THEN ret' = RetSet(set_to_measure) /\ pc' = "done"
       ELSE ret' = ret /\ pc' = "ws_measure"
    /\ UNCHANGED <<entry, round, dist, list_of_rv_groups, order, log_base, sources,
                   target, method, relevant_contents, intersection_set, pending,
                   filtered_atoms, set_to_measure, err, errSite, calls, first_call>>

\* SharedInformation measuring in the default base whatever log_base is.
SharedInformation_DefaultBase(d, atoms, base) ==
    RetFloat(measure(d, atoms, PyInt(DefaultLogBase)))

\* The value weakly_shared hands to its caller.
SharedInformation(d, atoms, base) == RetFloat(measure(d, atoms, base))

\* weakly_shared, lines 112-114 (and PID_LogDec._measure's return of it, line 54).
measure_set ==
    /\ pc = "ws_measure"
    /\ ret' = SharedInformation(dist, set_to_measure, log_base)
    /\ calls' = calls \cup {"measure"}
    /\ pc' = "done"
    /\ UNCHANGED <<entry, round, dist, list_of_rv_groups, order, log_base, sources,
                   target, method, relevant_contents, intersection_set, pending,
                   filtered_atoms, set_to_measure, err, errSite, first_call>>

\* SharedGeneratorGroups without the target group.
SharedGeneratorGroups_NoTarget(srcs, tgt) == PySeq("list", ListEach(srcs.items))

\* PID_LogDec._measure, lines 50 and 54: [*source_list[0], list(target)].
SharedGeneratorGroups(srcs, tgt) ==
    PySeq("list", ListEach(srcs.items) \o <<PyList(tgt)>>)

\* PID_LogDec._measure, lines 50-56.
pid_measure ==
    /\ pc = "pid_measure"
    /\ IF method = "shared_generator"
       THEN /\ list_of_rv_groups' = SharedGeneratorGroups(sources, target)
            /\ log_base' = PyInt(DefaultLogBase)
            /\ pc' = "ws_validate"
            /\ ret' = ret
       ELSE \* "cross" runs `pass`, any other method matches no branch:
            \* the function body ends and None is returned.
            /\ ret' = RetNone
            /\ pc' = "done"
            /\ UNCHANGED <<list_of_rv_groups, log_base>>
    /\ UNCHANGED <<entry, round, dist, order, sources, target, method,
                   relevant_contents, intersection_set, pending, filtered_atoms,
                   set_to_measure, err, errSite, calls, first_call>>

\* strongly_shared_content, lines 116-143: the body is the docstring alone.
strongly_shared_content ==
    /\ pc = "lookup"
    /\ entry = "strongly_shared_content"
    /\ ret' = RetNone
    /\ pc' = "done"
    /\ UNCHANGED <<entry, round, dist, list_of_rv_groups, order, log_base, sources,
                   target, method, relevant_contents, intersection_set, pending,
                   filtered_atoms, set_to_measure, err, errSite, calls, first_call>>

\* strongly_shared: named in __all__ (lines 7-12), defined nowhere in the module.
strongly_shared ==
    /\ pc = "lookup"
    /\ entry = "strongly_shared"
    /\ \E e \in LookupErrors : Raise(e, "lookup")
    /\ UNCHANGED <<entry, round, dist, list_of_rv_groups, order, log_base, sources,
                   target, method, relevant_contents, intersection_set, pending,
                   filtered_atoms, set_to_measure, ret, calls, first_call>>

Permuted(xs, p) == [k \in 1..Len(xs) |-> xs[p[k]]]

\* The caller repeats a completed weakly_shared_content call with the same
\* distribution and order and the groups in another order.
call_again_permuted ==
    /\ pc = "done"
    /\ entry = "weakly_shared_content"
    /\ round = 1
    /\ \E p \in Permutations(1..Len(list_of_rv_groups.items)) :
         list_of_rv_groups' = PySeq("list", Permuted(list_of_rv_groups.items, p))
    /\ round' = 2
    /\ first_call' = [groups |-> list_of_rv_groups, ret |-> ret]
    /\ pc' = "wsc_validate"
    /\ relevant_contents' = {}
    /\ intersection_set' = {}
    /\ pending' = {}
    /\ filtered_atoms' = {}
    /\ set_to_measure' = {}
    /\ ret' = RetUnset
    /\ calls' = {}
    /\ UNCHANGED <<entry, dist, order, log_base, sources, target, method, err, errSite>>

Next ==
    \/ weakly_shared_check
    \/ weakly_shared_content_check
    \/ compute_relevant_contents
    \/ pop_intersection_set
    \/ intersect_next_content
    \/ filter_atoms
    \/ compute_upper_set
    \/ return_set_to_measure
    \/ measure_set
    \/ pid_measure
    \/ strongly_shared_content
    \/ strongly_shared
    \/ call_again_permuted

Spec == Init /\ [][Next]_vars

SpecIndep == InitIndep /\ [][Next]_vars

----------------------------------------------------------------------------
(* Reference definitions the properties are stated with.                   *)

IsDistribution(d) == d.t = "Distribution"

ValidOrder(o) == o.t = "int" \/ (o.t = "str" /\ o.s \in {"even", "odd"})

ValidLogBase(base) == base.t \in {"int", "float"}

\* A list whose elements are all lists.
ListOfLists(groups) ==
    /\ groups.t = "list"
    /\ \A k \in 1..Len(groups.items) : groups.items[k].t = "list"

\* A sequence (list or tuple) whose elements are all sequences.
SequenceOfSequences(groups) ==
    /\ groups.t \in {"list", "tuple"}
    /\ \A k \in 1..Len(groups.items) : groups.items[k].t \in {"list", "tuple", "str"}

\* The atoms in the content of every group.
CommonContent(d, groups) ==
    {b \in Lattice(d) : \A k \in 1..Len(groups.items) : TellsApart(groups.items[k], b)}

\* Common atoms, order-filtered, then upper-closed.
ExpectedSet(d, groups, o) == upper_set(d, get_n_atoms(CommonContent(d, groups), o))

Finished == pc \in {"done", "raised"}

----------------------------------------------------------------------------
(* C1 *)

\* C1: for a distribution, a non-empty list of groups and a valid order,
\* weakly_shared_content raises nothing and returns, as a set and never None,
\* exactly upper_set(d, get_n_atoms(the intersection of the groups' contents, order));
\* for a single group that is upper_set(d, get_n_atoms(content(d, g), order)).
C1_ContentIsUpperSetOfCommonAtoms ==
    ( /\ entry = "weakly_shared_content"
      /\ IsDistribution(dist)
      /\ ListOfLists(list_of_rv_groups)
      /\ Len(list_of_rv_groups.items) >= 1
      /\ ValidOrder(order) )
    => /\ pc # "raised"
       /\ pc = "done" =>
            /\ ret.t = "set"
            /\ ret = RetSet(ExpectedSet(dist, list_of_rv_groups, order))
            /\ Len(list_of_rv_groups.items) = 1 =>
                 ret.atoms = upper_set(dist,
                     get_n_atoms(content(dist, list_of_rv_groups.items[1]), order))

\* Two groups with different contents were intersected into a non-empty result
\* that is smaller than the first group's own result.
C1_Witness ==
    /\ entry = "weakly_shared_content"
    /\ pc = "done"
    /\ Len(list_of_rv_groups.items) = 2
    /\ Cardinality(ContentsOf(dist, list_of_rv_groups.items)) = 2
    /\ ret.t = "set"
    /\ ret.atoms # {}
    /\ ret.atoms # upper_set(dist,
           get_n_atoms(content(dist, list_of_rv_groups.items[1]), order))

----------------------------------------------------------------------------
(* C2 *)

\* C2 as stated: once weakly_shared_content's input checks have run, they have
\* raised TypeError exactly when dist is no distribution, groups is no sequence
\* of sequences, or order is neither an int nor a string; ValueError exactly when
\* order is a string other than "even" and "odd"; and nothing otherwise.
C2_ChecksRejectNonSequencesOfSequences ==
    (entry = "weakly_shared_content" /\ round = 1 /\ pc # "wsc_validate") =>
        LET typeBad  == \/ ~IsDistribution(dist)
                        \/ ~SequenceOfSequences(list_of_rv_groups)
                        \/ order.t \notin {"int", "str"}
            valueBad == order.t = "str" /\ order.s \notin {"even", "odd"}
            raised   == errSite = "weakly_shared_content"
        IN  /\ typeBad => (raised /\ err = "TypeError")
            /\ (~typeBad /\ valueBad) => (raised /\ err = "ValueError")
            /\ (~typeBad /\ ~valueBad) => ~raised

\* C2: once weakly_shared_content's input checks have run, they have raised
\* TypeError exactly when dist is no distribution, groups is not a list (whatever
\* the list holds), or order is neither an int nor a string; ValueError exactly
\* when order is a string other than "even" and "odd"; and nothing otherwise,
\* with no collaborator called before a check raised.
C2_ChecksRejectNonLists ==
    (entry = "weakly_shared_content" /\ round = 1 /\ pc # "wsc_validate") =>
        LET typeBad  == \/ ~IsDistribution(dist)
                        \/ list_of_rv_groups.t # "list"
                        \/ order.t \notin {"int", "str"}
            valueBad == order.t = "str" /\ order.s \notin {"even", "odd"}
            raised   == errSite = "weakly_shared_content"
        IN  /\ typeBad => (raised /\ err = "TypeError" /\ calls = {})
            /\ (~typeBad /\ valueBad) => (raised /\ err = "ValueError" /\ calls = {})
            /\ (~typeBad /\ ~valueBad) => ~raised

\* A list holding an integer beside a list of names has passed the checks.
C2_Witness ==
    /\ entry = "weakly_shared_content"
    /\ pc = "wsc_contents"
    /\ ~SequenceOfSequences(list_of_rv_groups)
    /\ list_of_rv_groups.t = "list"

----------------------------------------------------------------------------
(* C3 *)

\* C3: weakly_shared rejects what weakly_shared_content's checks reject, and a
\* log_base that is neither int nor float with TypeError; it raises from its own
\* checks, before content, get_n_atoms, upper_set or measure is called and with
\* no value computed or returned; inputs that pass are never rejected later by
\* the checks of weakly_shared_content.
C3_SharedChecksComeFirst ==
    (entry = "weakly_shared" /\ pc # "ws_validate") =>
        LET inner    == ContentInputError(dist, list_of_rv_groups, order)
            expected == IF inner = "TypeError" THEN "TypeError"
                        ELSE IF ~ValidLogBase(log_base) THEN "TypeError"
                        ELSE inner
        IN  /\ expected # "none" =>
                 /\ pc = "raised"
                 /\ errSite = "weakly_shared"
                 /\ err = expected
                 /\ calls = {}
                 /\ ret = RetUnset
                 /\ relevant_contents = {} /\ intersection_set = {}
                 /\ filtered_atoms = {} /\ set_to_measure = {}
            /\ expected = "none" => errSite \notin {"weakly_shared", "weakly_shared_content"}

\* weakly_shared refused a call whose only fault is its log_base.
C3_Witness ==
    /\ entry = "weakly_shared"
    /\ pc = "raised"
    /\ err = "TypeError"
    /\ ContentInputError(dist, list_of_rv_groups, order) = "none"
    /\ ~ValidLogBase(log_base)
    /\ list_of_rv_groups.items # <<>>

----------------------------------------------------------------------------
(* C4 *)

\* C4: a call of strongly_shared_content or strongly_shared ends by reporting
\* "not implemented"; it never returns normally.
C4_StronglySharedReportsNotImplemented ==
    (entry \in {"strongly_shared_content", "strongly_shared"} /\ Finished) =>
        (pc = "raised" /\ err = "NotImplementedError")

----------------------------------------------------------------------------
(* C5 *)

\* C5: PID_LogDec._measure called with method "cross", or with any method other
\* than "shared_generator", fails; it never returns normally.
C5_UnsupportedMethodFails ==
    (entry = "PID_LogDec._measure" /\ method # "shared_generator" /\ Finished) =>
        pc = "raised"

----------------------------------------------------------------------------
(* C6 *)

\* C6: with method "shared_generator", PID_LogDec._measure calls weakly_shared
\* with the sources, each as a list and in their order, followed by the target as
\* the last group, with log_base 2, and its outcome is that call's outcome: the
\* measure in base 2 of the expected set, or the input error of weakly_shared.
C6_SharedGeneratorDelegates ==
    (entry = "PID_LogDec._measure" /\ method = "shared_generator" /\ pc # "pid_measure") =>
        LET n == Len(sources.items) IN
        /\ list_of_rv_groups.t = "list"
        /\ Len(list_of_rv_groups.items) = n + 1
        /\ \A k \in 1..n :
             list_of_rv_groups.items[k] = PySeq("list", sources.items[k].items)
        /\ list_of_rv_groups.items[n + 1] = PySeq("list", target.items)
        /\ log_base = PyInt(2)
        /\ pc = "done" =>
             ret = RetFloat(measure(dist,
                       ExpectedSet(dist, list_of_rv_groups, order), PyInt(2)))
        /\ pc = "raised" =>
             /\ errSite = "weakly_shared"
             /\ ~(IsDistribution(dist) /\ ValidOrder(order))
        /\ (IsDistribution(dist) /\ ValidOrder(order)) => pc # "raised"

\* Two different sources and the target were measured together, to a non-zero value.
C6_Witness ==
    /\ entry = "PID_LogDec._measure"
    /\ method = "shared_generator"
    /\ pc = "done"
    /\ Len(sources.items) = 2
    /\ sources.items[1] # sources.items[2]
    /\ target.t = "str"
    /\ ~IsZero(ret)

----------------------------------------------------------------------------
(* C7 *)

\* C7: weakly_shared_content called again with the same distribution and order
\* and the groups permuted returns what the first call returned, whichever
\* content sets pop() and the loop happened to take first in either call.
C7_GroupOrderIsIrrelevant ==
    (entry = "weakly_shared_content" /\ round = 2) =>
        /\ pc # "raised"
        /\ pc = "done" => ret = first_call.ret

\* The second call had its two groups, of different contents, swapped.
C7_Witness ==
    /\ entry = "weakly_shared_content"
    /\ round = 2
    /\ pc = "done"
    /\ Len(list_of_rv_groups.items) >= 2
    /\ list_of_rv_groups # first_call.groups
    /\ Cardinality(ContentsOf(dist, list_of_rv_groups.items)) >= 2
    /\ ret.atoms # {}

----------------------------------------------------------------------------
(* C8 *)

\* C8: weakly_shared returns measure(d, weakly_shared_content(d, groups, order),
\* log_base); when no atom lies in every group's content, the set measured is the
\* upper set of the empty filtered set and the value returned is 0.
C8_SharedIsMeasureOfContent ==
    (entry = "weakly_shared" /\ pc = "done") =>
        /\ ret.t = "float"
        /\ ret = RetFloat(measure(dist,
                     ExpectedSet(dist, list_of_rv_groups, order), log_base))
        /\ CommonContent(dist, list_of_rv_groups) = {} =>
             /\ set_to_measure = upper_set(dist, get_n_atoms({}, order))
             /\ IsZero(ret)

\* Two groups, the first with content, no atom common to both: 0 was returned.
C8_Witness ==
    /\ entry = "weakly_shared"
    /\ pc = "done"
    /\ Len(list_of_rv_groups.items) = 2
    /\ content(dist, list_of_rv_groups.items[1]) # {}
    /\ CommonContent(dist, list_of_rv_groups) = {}
    /\ IsZero(ret)

----------------------------------------------------------------------------
(* C9 *)

XYZ == PySeq("list", <<PySeq("list", <<"X">>), PySeq("list", <<"Y">>), PySeq("list", <<"Z">>)>>)

\* C9: for three independent uniform bits, weakly_shared(d, [["X"],["Y"],["Z"]],
\* order=2) is 0: no atom of order 2 lies in the content of all three groups.
C9_IndependentBitsShareNothing ==
    ( /\ pc = "done"
      /\ ret.t = "float"
      /\ dist = Indep3
      /\ list_of_rv_groups = XYZ
      /\ order = PyInt(2) )
    => /\ filtered_atoms = {}
       /\ IsZero(ret)

----------------------------------------------------------------------------
(* C10 *)

\* C10: weakly_shared_content and weakly_shared, given a distribution, a valid
\* order (and log_base) and the empty list of groups, pass their input checks
\* and stop at the pop with KeyError, no collaborator called and nothing returned.
C10_EmptyGroupListRaisesKeyError ==
    ( /\ entry \in {"weakly_shared_content", "weakly_shared"}
      /\ IsDistribution(dist)
      /\ ValidOrder(order)
      /\ entry = "weakly_shared" => ValidLogBase(log_base)
      /\ list_of_rv_groups = PySeq("list", <<>>) )
    => /\ pc \in {"ws_validate", "wsc_validate", "wsc_contents", "wsc_pop", "raised"}
       /\ ret = RetUnset
       /\ calls = {}
       /\ pc = "raised" => (err = "KeyError" /\ errSite = "pop")

\* weakly_shared reached the pop with no content set to take.
C10_Witness ==
    /\ entry = "weakly_shared"
    /\ list_of_rv_groups = PySeq("list", <<>>)
    /\ pc = "raised"
    /\ err = "KeyError"

====
